---- MODULE Spec2Model ----
(***************************************************************************)
(* Model of the mass_transit MPMC channel (src/src/lib.rs).                *)
(*                                                                         *)
(* Every Sender handle and every Receiver thread is a process.  A step of  *)
(* a process is one critical section of the source (from taking a Mutex to *)
(* dropping its guard), one atomic operation on num_senders, or one call   *)
(* of std::thread::park.  The `queue` Mutex (the waiter registry) is only  *)
(* ever held for a section that neither blocks nor touches other shared    *)
(* state, so each such section is one step.  The `data` Mutex is held by   *)
(* recv_all across several steps, so its holder is explicit state.         *)
(* Atomics are modelled sequentially consistent.                           *)
(***************************************************************************)
EXTENDS Integers, Sequences, FiniteSets

\* ---------------------------------------------------------------- bounds
\* The environment's budget: the number of items handed to send / send_many,
\* plus the number of receive calls started, plus the number of spurious
\* returns of std::thread::park.  Every split of the budget is explored.
MaxOps == 3

\* Sender handles: s1 is the handle returned by channel(), s2 a clone.
Senders == {"s1", "s2"}
\* Receiver threads, each owning a Receiver handle.
Receivers == {"r1", "r2"}
\* arguments given to recv_exact (0 is the misuse case)
Nums == {0, 1, 2}
\* lengths of the batches given to send_many
BatchLens == {0, 1, 2}

\* usize::MAX, the count a recv_all waiter declares.  Only its order
\* relative to the other counts is used; the value is the largest integer
\* of the checker and exceeds every sum of counts the bounds allow.
UsizeMax == 2147483647

VARIABLES
    data,         \* ChannelInner.data: the queued items, front first
    dataLock,     \* holder of the `data` Mutex guard, or "free"
    queue,        \* ChannelInner.queue: the WaitingThread records, front first
    num_senders,  \* ChannelInner.num_senders
    token,        \* per receiver thread: the park/unpark token
    spc,          \* per sender handle: position in its current call
    slen,         \* per sender handle: length of the batch of the call in progress
    snum,         \* per sender handle: send_many's local num_items
    itemsLeft,    \* number of items send / send_many calls may still be given
    pushed,       \* history: every item pushed into data so far, in push order
    quiet,        \* per sender handle: history: its send / send_many in progress
                  \* was called while no receiver was inside a receive call,
                  \* and no receive call has started since
    sleepers,     \* history: the receivers that were registered and parked in
                  \* recv() on an empty channel when num_senders went to 0
    rpc,          \* per receiver: position in its current call
    rop,          \* per receiver: the method of its latest call
    rnum,         \* per receiver: the count its latest call asks for
    ret,          \* per receiver: kind of result of its latest call
    bornClosed,   \* per receiver: history: its call in progress started with
                  \* num_senders = 0 and data empty
    got,          \* per receiver: all items returned to it, in order
    callsLeft,    \* number of receive calls that may still be started
    spuriousLeft  \* number of spurious park returns that may still happen

vars == <<data, dataLock, queue, num_senders, token, spc, slen, snum, itemsLeft,
          pushed, quiet, sleepers, rpc, rop, rnum, ret, bornClosed, got, callsLeft, spuriousLeft>>

svars == <<spc, slen, snum, itemsLeft, pushed, quiet, sleepers>>
rvars == <<rpc, rop, rnum, ret, bornClosed, got, callsLeft>>

\* ---------------------------------------------------------------- helpers
\* an item: the handle it is pushed through and its rank among all pushes
Item(s, k) == [from |-> s, id |-> k]

\* the items of a batch of n that handle s pushes now
NewItems(s, n) == [i \in 1..n |-> Item(s, Len(pushed) + i)]

\* WaitingThread::new(count)
WaitingThread(r, count) == [thread |-> r, count |-> count]

\* results of a receive call: not yet returned, None, Some(..)
ResultKinds == {"pending", "closed", "some"}

\* r has a record in the waiter registry
Registered(r) == \E i \in 1..Len(queue) : queue[i].thread = r

\* Unpark as a bare signal: a wake that finds its thread not yet blocked in
\* park is forgotten
UnparkForgotten(W) == token

\* Thread::unpark on every thread of W: the token becomes available
Unpark(W) == [r \in Receivers |-> token[r] \/ r \in W]

\* ---------------------------------------------------------------- channel()
\* the ways the environment may spend its budget
Budgets ==
    {b \in [items : 0..MaxOps, calls : 0..MaxOps, spurious : 0..MaxOps] :
        b.items + b.calls + b.spurious = MaxOps}

Init ==
    /\ data = <<>>
    /\ dataLock = "free"
    /\ queue = <<>>
    /\ num_senders = 1
    /\ token = [r \in Receivers |-> FALSE]
    /\ spc = [s \in Senders |-> IF s = "s1" THEN "idle" ELSE "unborn"]
    /\ slen = [s \in Senders |-> 0]
    /\ snum = [s \in Senders |-> 0]
    /\ pushed = <<>>
    /\ quiet = [s \in Senders |-> FALSE]
    /\ sleepers = {}
    /\ rpc = [r \in Receivers |-> "idle"]
    /\ rop = [r \in Receivers |-> "none"]
    /\ rnum = [r \in Receivers |-> 0]
    /\ ret = [r \in Receivers |-> "pending"]
    /\ bornClosed = [r \in Receivers |-> FALSE]
    /\ got = [r \in Receivers |-> <<>>]
    /\ \E b \in Budgets :
          /\ itemsLeft = b.items
          /\ callsLeft = b.calls
          /\ spuriousLeft = b.spurious

\* ---------------------------------------------------------------- Sender
\* a thread calls send(item) on live handle s
StartSend(s) ==
    /\ spc[s] = "idle"
    /\ itemsLeft >= 1
    /\ itemsLeft' = itemsLeft - 1
    /\ spc' = [spc EXCEPT ![s] = "send_push"]
    /\ slen' = [slen EXCEPT ![s] = 1]
    /\ quiet' = [quiet EXCEPT ![s] = \A r \in Receivers : rpc[r] = "idle"]
    /\ UNCHANGED <<data, dataLock, queue, num_senders, token, snum, pushed, sleepers,
                   rvars, spuriousLeft>>

\* send: lock data, push_back(item), drop(lock)
SendPush(s) ==
    /\ spc[s] = "send_push"
    /\ dataLock = "free"
    /\ data' = Append(data, NewItems(s, 1)[1])
    /\ pushed' = Append(pushed, NewItems(s, 1)[1])
    /\ spc' = [spc EXCEPT ![s] = "send_wake"]
    /\ UNCHANGED <<sleepers, dataLock, queue, num_senders, token, slen, snum, itemsLeft,
                   quiet, rvars, spuriousLeft>>

\* SendWake taking the newest record (pop_back for pop_front)
SendWakeBack(s) ==
    /\ spc[s] = "send_wake"
    /\ IF queue # <<>>
       THEN /\ queue' = SubSeq(queue, 1, Len(queue) - 1)
            /\ token' = Unpark({queue[Len(queue)].thread})
       ELSE UNCHANGED <<sleepers, queue, token>>
    /\ spc' = [spc EXCEPT ![s] = "idle"]
    /\ slen' = [slen EXCEPT ![s] = 0]
    /\ quiet' = [quiet EXCEPT ![s] = FALSE]
    /\ UNCHANGED <<data, dataLock, num_senders, snum, itemsLeft, pushed, sleepers,
                   rvars, spuriousLeft>>

\* send: lock queue, pop_front, unpark the popped thread if any
SendWake(s) ==
    /\ spc[s] = "send_wake"
    /\ IF queue # <<>>
       THEN /\ queue' = Tail(queue)
            /\ token' = Unpark({Head(queue).thread})
       ELSE UNCHANGED <<sleepers, queue, token>>
    /\ spc' = [spc EXCEPT ![s] = "idle"]
    /\ slen' = [slen EXCEPT ![s] = 0]
    /\ quiet' = [quiet EXCEPT ![s] = FALSE]
    /\ UNCHANGED <<data, dataLock, num_senders, snum, itemsLeft, pushed, sleepers,
                   rvars, spuriousLeft>>

\* a thread calls send_many(items) on live handle s, items of length n
StartSendMany(s, n) ==
    /\ spc[s] = "idle"
    /\ itemsLeft >= n
    /\ itemsLeft' = itemsLeft - n
    /\ spc' = [spc EXCEPT ![s] = "many_push"]
    /\ slen' = [slen EXCEPT ![s] = n]
    /\ quiet' = [quiet EXCEPT ![s] = \A r \in Receivers : rpc[r] = "idle"]
    /\ UNCHANGED <<data, dataLock, queue, num_senders, token, snum, pushed, sleepers,
                   rvars, spuriousLeft>>

\* SendManyPush with push_front for push_back: the batch lands reversed at
\* the front of the queue
RECURSIVE Reverse(_)
Reverse(q) == IF q = <<>> THEN <<>> ELSE Append(Reverse(Tail(q)), Head(q))

SendManyPushFront(s) ==
    /\ spc[s] = "many_push"
    /\ dataLock = "free"
    /\ data' = Reverse(NewItems(s, slen[s])) \o data
    /\ snum' = [snum EXCEPT ![s] = Len(data')]
    /\ pushed' = pushed \o NewItems(s, slen[s])
    /\ spc' = [spc EXCEPT ![s] = "many_wake"]
    /\ UNCHANGED <<sleepers, dataLock, queue, num_senders, token, slen, itemsLeft,
                   quiet, rvars, spuriousLeft>>

\* SendManyPush taking the data lock once per item: each step pushes one
\* item and drops the lock (snum counts the items pushed so far); the step
\* that pushes the last item reads lock.len() and goes on to the wake
SendManyPushEach(s) ==
    /\ spc[s] = "many_push"
    /\ dataLock = "free"
    /\ IF slen[s] = 0
       THEN /\ UNCHANGED <<data, pushed>>
            /\ snum' = [snum EXCEPT ![s] = Len(data)]
            /\ spc' = [spc EXCEPT ![s] = "many_wake"]
       ELSE /\ data' = Append(data, Item(s, Len(pushed) + 1))
            /\ pushed' = Append(pushed, Item(s, Len(pushed) + 1))
            /\ IF snum[s] + 1 = slen[s]
               THEN /\ snum' = [snum EXCEPT ![s] = Len(data')]
                    /\ spc' = [spc EXCEPT ![s] = "many_wake"]
               ELSE /\ snum' = [snum EXCEPT ![s] = @ + 1]
                    /\ spc' = spc
    /\ UNCHANGED <<sleepers, dataLock, queue, num_senders, token, slen, itemsLeft,
                   quiet, rvars, spuriousLeft>>

\* send_many: lock data, push_back every item, num_items = lock.len(), drop(lock)
SendManyPush(s) ==
    /\ spc[s] = "many_push"
    /\ dataLock = "free"
    /\ data' = data \o NewItems(s, slen[s])
    /\ snum' = [snum EXCEPT ![s] = Len(data')]
    /\ pushed' = pushed \o NewItems(s, slen[s])
    /\ spc' = [spc EXCEPT ![s] = "many_wake"]
    /\ UNCHANGED <<sleepers, dataLock, queue, num_senders, token, slen, itemsLeft,
                   quiet, rvars, spuriousLeft>>

\* send_many's loop `while let Some(wt) = lock.pop_front()`: the registry
\* left and the threads unparked, starting from registry q with `taken`
RECURSIVE WakeLoop(_, _, _, _)
WakeLoop(q, taken, num_items, woken) ==
    IF q = <<>> THEN [queue |-> q, woken |-> woken]
    ELSE LET wt == Head(q)
             taken2 == IF wt.count = UsizeMax THEN UsizeMax
                       ELSE taken + wt.count
         IN IF taken2 >= num_items
            THEN [queue |-> Tail(q), woken |-> woken \cup {wt.thread}]
            ELSE WakeLoop(Tail(q), taken2, num_items, woken \cup {wt.thread})

\* send_many: lock queue, wake waiters until their counts cover num_items
SendManyWake(s) ==
    /\ spc[s] = "many_wake"
    /\ LET w == WakeLoop(queue, 0, snum[s], {})
       IN /\ queue' = w.queue
          /\ token' = Unpark(w.woken)
    /\ spc' = [spc EXCEPT ![s] = "idle"]
    /\ slen' = [slen EXCEPT ![s] = 0]
    /\ snum' = [snum EXCEPT ![s] = 0]
    /\ quiet' = [quiet EXCEPT ![s] = FALSE]
    /\ UNCHANGED <<data, dataLock, num_senders, itemsLeft, pushed, sleepers,
                   rvars, spuriousLeft>>

\* SenderClone without the fetch_add: the new handle is not counted
SenderCloneNoCount(s, c) ==
    /\ spc[s] = "idle"
    /\ spc[c] = "unborn"
    /\ num_senders' = num_senders
    /\ spc' = [spc EXCEPT ![c] = "idle"]
    /\ UNCHANGED <<data, dataLock, queue, token, slen, snum, itemsLeft, pushed, sleepers,
                   quiet, rvars, spuriousLeft>>

\* Clone for Sender: fetch_add(1) and a new handle c
SenderClone(s, c) ==
    /\ spc[s] = "idle"
    /\ spc[c] = "unborn"
    /\ num_senders' = num_senders + 1
    /\ spc' = [spc EXCEPT ![c] = "idle"]
    /\ UNCHANGED <<data, dataLock, queue, token, slen, snum, itemsLeft, pushed, sleepers,
                   quiet, rvars, spuriousLeft>>

\* Drop for Sender: fetch_sub(1); the last handle goes on to the broadcast
SenderDrop(s) ==
    /\ spc[s] = "idle"
    /\ num_senders' = num_senders - 1
    /\ spc' = [spc EXCEPT ![s] = IF num_senders = 1 THEN "drop_wake"
                                 ELSE "dropped"]
    /\ sleepers' = IF num_senders = 1 /\ data = <<>>
                   THEN {r \in Receivers : /\ rop[r] = "recv"
                                            /\ rpc[r] = "recv_park"
                                            /\ Registered(r)}
                   ELSE sleepers
    /\ UNCHANGED <<data, dataLock, queue, token, slen, snum, itemsLeft, pushed,
                   quiet, rvars, spuriousLeft>>

\* Drop for Sender: lock queue, unpark every record's thread (lock.iter():
\* the records stay in the registry)
SenderDropWake(s) ==
    /\ spc[s] = "drop_wake"
    /\ token' = Unpark({queue[i].thread : i \in 1..Len(queue)})
    /\ spc' = [spc EXCEPT ![s] = "dropped"]
    /\ UNCHANGED <<data, dataLock, queue, num_senders, slen, snum, itemsLeft,
                   pushed, quiet, sleepers, rvars, spuriousLeft>>

\* ---------------------------------------------------------------- Receiver
\* the receive call of r returns Some(items)
ReturnSome(r, items) ==
    /\ rpc' = [rpc EXCEPT ![r] = "idle"]
    /\ ret' = [ret EXCEPT ![r] = "some"]
    /\ got' = [got EXCEPT ![r] = @ \o items]
    /\ bornClosed' = [bornClosed EXCEPT ![r] = FALSE]
    /\ UNCHANGED <<rop, rnum, callsLeft>>

\* the receive call of r returns None
ReturnNone(r) ==
    /\ rpc' = [rpc EXCEPT ![r] = "idle"]
    /\ ret' = [ret EXCEPT ![r] = "closed"]
    /\ bornClosed' = [bornClosed EXCEPT ![r] = FALSE]
    /\ UNCHANGED <<rop, rnum, got, callsLeft>>

Goto(r, pc) ==
    /\ rpc' = [rpc EXCEPT ![r] = pc]
    /\ UNCHANGED <<rop, rnum, ret, bornClosed, got, callsLeft>>

StartCall(r, op, pc, num) ==
    /\ rpc[r] = "idle"
    /\ callsLeft >= 1
    /\ callsLeft' = callsLeft - 1
    /\ rpc' = [rpc EXCEPT ![r] = pc]
    /\ rop' = [rop EXCEPT ![r] = op]
    /\ rnum' = [rnum EXCEPT ![r] = num]
    /\ ret' = [ret EXCEPT ![r] = "pending"]
    /\ bornClosed' = [bornClosed EXCEPT ![r] = (num_senders = 0 /\ data = <<>>)]
    /\ quiet' = [s \in Senders |-> FALSE]
    /\ UNCHANGED <<data, dataLock, queue, num_senders, token, spc, slen, snum,
                   itemsLeft, pushed, sleepers, got, spuriousLeft>>

\* a thread calls recv(), recv_exact(num), recv_all() on its Receiver
StartRecv(r) == StartCall(r, "recv", "recv_pop", 1)
StartRecvExact(r, num) == StartCall(r, "recv_exact", "exact_pop", num)
StartRecvAll(r) == StartCall(r, "recv_all", "all_take", UsizeMax)

\* RecvPop reading the front item without removing it (front() for pop_front())
RecvPopPeek(r) ==
    /\ rpc[r] = "recv_pop"
    /\ dataLock = "free"
    /\ data' = data
    /\ IF data # <<>>
       THEN ReturnSome(r, <<Head(data)>>)
       ELSE Goto(r, "recv_chk")
    /\ UNCHANGED <<dataLock, queue, num_senders, token, svars, spuriousLeft>>

\* recv: lock data, pop_front, drop(lock); return Some(item) if there was one
RecvPop(r) ==
    /\ rpc[r] = "recv_pop"
    /\ dataLock = "free"
    /\ IF data # <<>>
       THEN /\ data' = Tail(data)
            /\ ReturnSome(r, <<Head(data)>>)
       ELSE /\ data' = data
            /\ Goto(r, "recv_chk")
    /\ UNCHANGED <<dataLock, queue, num_senders, token, svars, spuriousLeft>>

\* recv / recv_exact: `if num_senders.load(Acquire) == 0 { return None }`
CheckClosed(r, here, next) ==
    /\ rpc[r] = here
    /\ IF num_senders = 0 THEN ReturnNone(r) ELSE Goto(r, next)
    /\ UNCHANGED <<data, dataLock, queue, num_senders, token, svars, spuriousLeft>>

RecvCheck(r) == CheckClosed(r, "recv_chk", "recv_reg")

\* lock queue, push_back(WaitingThread::new(count)), drop(lock)
Register(r, here, next, count) ==
    /\ rpc[r] = here
    /\ queue' = Append(queue, WaitingThread(r, count))
    /\ Goto(r, next)
    /\ UNCHANGED <<data, dataLock, num_senders, token, svars, spuriousLeft>>

RecvRegister(r) == Register(r, "recv_reg", "recv_park", 1)

\* std::thread::park returns, consuming the token, and the loop starts over
RecvPark(r) ==
    /\ rpc[r] = "recv_park"
    /\ token[r]
    /\ token' = [token EXCEPT ![r] = FALSE]
    /\ Goto(r, "recv_pop")
    /\ UNCHANGED <<data, dataLock, queue, num_senders, svars, spuriousLeft>>

\* Drain with the length test made before the push instead of after it: the
\* loop returns one item late
RECURSIVE DrainLate(_, _, _)
DrainLate(q, acc, num) ==
    IF q # <<>>
    THEN IF Len(acc) = num
         THEN [rest |-> Tail(q), out |-> Append(acc, Head(q)), returns |-> TRUE]
         ELSE DrainLate(Tail(q), Append(acc, Head(q)), num)
    ELSE IF acc # <<>>
         THEN [rest |-> q, out |-> acc, returns |-> TRUE]
         ELSE [rest |-> q, out |-> acc, returns |-> FALSE]

\* recv_exact's inner loop, run with the data lock held on queue q with
\* accumulator acc: the rest of the queue, the accumulator, and whether the
\* loop ended in a return (TRUE) or in the break (FALSE)
RECURSIVE Drain(_, _, _)
Drain(q, acc, num) ==
    IF q # <<>>
    THEN LET acc2 == Append(acc, Head(q))
         IN IF Len(acc2) = num
            THEN [rest |-> Tail(q), out |-> acc2, returns |-> TRUE]
            ELSE Drain(Tail(q), acc2, num)
    ELSE IF acc # <<>>
         THEN [rest |-> q, out |-> acc, returns |-> TRUE]
         ELSE [rest |-> q, out |-> acc, returns |-> FALSE]

\* recv_exact: lock data, run the inner loop; return, or drop(lock) on break
RecvExactPop(r) ==
    /\ rpc[r] = "exact_pop"
    /\ dataLock = "free"
    /\ LET d == Drain(data, <<>>, rnum[r])
       IN /\ data' = d.rest
          /\ IF d.returns
             THEN ReturnSome(r, d.out)
             ELSE Goto(r, "exact_chk")
    /\ UNCHANGED <<dataLock, queue, num_senders, token, svars, spuriousLeft>>

RecvExactCheck(r) == CheckClosed(r, "exact_chk", "exact_reg")

RecvExactRegister(r) == Register(r, "exact_reg", "exact_park", rnum[r])

RecvExactPark(r) ==
    /\ rpc[r] = "exact_park"
    /\ token[r]
    /\ token' = [token EXCEPT ![r] = FALSE]
    /\ Goto(r, "exact_pop")
    /\ UNCHANGED <<data, dataLock, queue, num_senders, svars, spuriousLeft>>

\* RecvAllTake detaching only the front item (pop_front for mem::take)
RecvAllTakeFront(r) ==
    /\ rpc[r] = "all_take"
    /\ dataLock = "free"
    /\ IF data # <<>>
       THEN /\ data' = Tail(data)
            /\ ReturnSome(r, <<Head(data)>>)
            /\ dataLock' = "free"
       ELSE /\ data' = data
            /\ Goto(r, "all_chk")
            /\ dataLock' = r
    /\ UNCHANGED <<queue, num_senders, token, svars, spuriousLeft>>

\* RecvAllTake dropping the data guard before the num_senders check, as recv
\* and recv_exact do
RecvAllTakeUnlocked(r) ==
    /\ rpc[r] = "all_take"
    /\ dataLock = "free"
    /\ data' = <<>>
    /\ IF data # <<>>
       THEN ReturnSome(r, data)
       ELSE Goto(r, "all_chk")
    /\ UNCHANGED <<dataLock, queue, num_senders, token, svars, spuriousLeft>>

\* recv_all: lock data, mem::take; return Some(all) if non-empty, else go on
\* to the num_senders check with the guard still alive
RecvAllTake(r) ==
    /\ rpc[r] = "all_take"
    /\ dataLock = "free"
    /\ data' = <<>>
    /\ IF data # <<>>
       THEN /\ ReturnSome(r, data)
            /\ dataLock' = "free"
       ELSE /\ Goto(r, "all_chk")
            /\ dataLock' = r
    /\ UNCHANGED <<queue, num_senders, token, svars, spuriousLeft>>

\* recv_all: `else if num_senders.load(Acquire) == 0 { return None }`; the
\* return drops the data guard
RecvAllCheck(r) ==
    /\ rpc[r] = "all_chk"
    /\ IF num_senders = 0
       THEN /\ ReturnNone(r)
            /\ dataLock' = "free"
       ELSE /\ Goto(r, "all_reg")
            /\ dataLock' = dataLock
    /\ UNCHANGED <<data, queue, num_senders, token, svars, spuriousLeft>>

\* recv_all: the queue guard shadows the data guard, which stays alive
RecvAllRegister(r) == Register(r, "all_reg", "all_park", UsizeMax)

\* recv_all: park returns; the loop body ends, which drops the data guard
RecvAllPark(r) ==
    /\ rpc[r] = "all_park"
    /\ token[r]
    /\ token' = [token EXCEPT ![r] = FALSE]
    /\ dataLock' = "free"
    /\ Goto(r, "all_take")
    /\ UNCHANGED <<data, queue, num_senders, svars, spuriousLeft>>

Parked(r) == rpc[r] \in {"recv_park", "exact_park", "all_park"}

\* std::thread::park may return spuriously, without a token
SpuriousWake(r) ==
    /\ Parked(r)
    /\ ~token[r]
    /\ spuriousLeft >= 1
    /\ spuriousLeft' = spuriousLeft - 1
    /\ Goto(r, CASE rpc[r] = "recv_park" -> "recv_pop"
                 [] rpc[r] = "exact_park" -> "exact_pop"
                 [] rpc[r] = "all_park" -> "all_take")
    /\ dataLock' = IF rpc[r] = "all_park" THEN "free" ELSE dataLock
    /\ UNCHANGED <<data, queue, num_senders, token, svars>>

\* ---------------------------------------------------------------- system
Next ==
    \/ \E s \in Senders : StartSend(s)
    \/ \E s \in Senders : SendPush(s)
    \/ \E s \in Senders : SendWake(s)
    \/ \E s \in Senders, n \in BatchLens : StartSendMany(s, n)
    \/ \E s \in Senders : SendManyPush(s)
    \/ \E s \in Senders : SendManyWake(s)
    \/ \E s, c \in Senders : SenderClone(s, c)
    \/ \E s \in Senders : SenderDrop(s)
    \/ \E s \in Senders : SenderDropWake(s)
    \/ \E r \in Receivers : StartRecv(r)
    \/ \E r \in Receivers : RecvPop(r)
    \/ \E r \in Receivers : RecvCheck(r)
    \/ \E r \in Receivers : RecvRegister(r)
    \/ \E r \in Receivers : RecvPark(r)
    \/ \E r \in Receivers, num \in Nums : StartRecvExact(r, num)
    \/ \E r \in Receivers : RecvExactPop(r)
    \/ \E r \in Receivers : RecvExactCheck(r)
    \/ \E r \in Receivers : RecvExactRegister(r)
    \/ \E r \in Receivers : RecvExactPark(r)
    \/ \E r \in Receivers : StartRecvAll(r)
    \/ \E r \in Receivers : RecvAllTake(r)
    \/ \E r \in Receivers : RecvAllCheck(r)
    \/ \E r \in Receivers : RecvAllRegister(r)
    \/ \E r \in Receivers : RecvAllPark(r)
    \/ \E r \in Receivers : SpuriousWake(r)

Spec == Init /\ [][Next]_vars

\* in-call steps of a sender handle and of a receiver thread
SenderStep(s) ==
    \/ SendPush(s) \/ SendWake(s) \/ SendManyPush(s) \/ SendManyWake(s)
    \/ SenderDropWake(s)

ReceiverStep(r) ==
    \/ RecvPop(r) \/ RecvCheck(r) \/ RecvRegister(r) \/ RecvPark(r)
    \/ RecvExactPop(r) \/ RecvExactCheck(r) \/ RecvExactRegister(r)
    \/ RecvExactPark(r)
    \/ RecvAllTake(r) \/ RecvAllCheck(r) \/ RecvAllRegister(r) \/ RecvAllPark(r)

\* every thread that can take a step of the call it is in eventually does;
\* starting a call, dropping a handle and spurious wake-ups are not forced
Fairness ==
    /\ \A s \in Senders : WF_vars(SenderStep(s))
    /\ \A r \in Receivers : WF_vars(ReceiverStep(r))

FairSpec == Spec /\ Fairness

\* ---------------------------------------------------------------- scenarios
\* tests::wake_up_waiting_thread: one thread owns the Sender, calls send once
\* and drops it; the other thread calls recv twice.  Both threads run to the
\* end of their program, so their steps (starting a call included) are fair;
\* a spurious return of park is possible but never forced.
InitWake ==
    /\ data = <<>>
    /\ dataLock = "free"
    /\ queue = <<>>
    /\ num_senders = 1
    /\ token = [r \in Receivers |-> FALSE]
    /\ spc = [s \in Senders |-> IF s = "s1" THEN "idle" ELSE "unborn"]
    /\ slen = [s \in Senders |-> 0]
    /\ snum = [s \in Senders |-> 0]
    /\ itemsLeft = 1
    /\ pushed = <<>>
    /\ quiet = [s \in Senders |-> FALSE]
    /\ sleepers = {}
    /\ rpc = [r \in Receivers |-> "idle"]
    /\ rop = [r \in Receivers |-> "none"]
    /\ rnum = [r \in Receivers |-> 0]
    /\ ret = [r \in Receivers |-> "pending"]
    /\ bornClosed = [r \in Receivers |-> FALSE]
    /\ got = [r \in Receivers |-> <<>>]
    /\ callsLeft = 2
    /\ spuriousLeft \in {0, 1}

\* the sending thread: send(x), then the Sender goes out of scope
WakeSender ==
    \/ StartSend("s1")
    \/ SendPush("s1")
    \/ SendWake("s1")
    \/ (itemsLeft = 0 /\ SenderDrop("s1"))
    \/ SenderDropWake("s1")

\* the receiving thread: recv(), recv()
WakeReceiver ==
    \/ StartRecv("r1")
    \/ RecvPop("r1")
    \/ RecvCheck("r1")
    \/ RecvRegister("r1")
    \/ RecvPark("r1")

NextWake == WakeSender \/ WakeReceiver \/ SpuriousWake("r1")

SpecWake ==
    /\ InitWake /\ [][NextWake]_vars
    /\ WF_vars(WakeSender) /\ WF_vars(WakeReceiver)

\* the close protocol alone, under fair scheduling: the senders clone and
\* drop their handles and push nothing, the receivers make any calls
InitClose ==
    /\ data = <<>>
    /\ dataLock = "free"
    /\ queue = <<>>
    /\ num_senders = 1
    /\ token = [r \in Receivers |-> FALSE]
    /\ spc = [s \in Senders |-> IF s = "s1" THEN "idle" ELSE "unborn"]
    /\ slen = [s \in Senders |-> 0]
    /\ snum = [s \in Senders |-> 0]
    /\ pushed = <<>>
    /\ quiet = [s \in Senders |-> FALSE]
    /\ sleepers = {}
    /\ rpc = [r \in Receivers |-> "idle"]
    /\ rop = [r \in Receivers |-> "none"]
    /\ rnum = [r \in Receivers |-> 0]
    /\ ret = [r \in Receivers |-> "pending"]
    /\ bornClosed = [r \in Receivers |-> FALSE]
    /\ got = [r \in Receivers |-> <<>>]
    /\ \E b \in Budgets :
          /\ b.items = 0
          /\ itemsLeft = b.items
          /\ callsLeft = b.calls
          /\ spuriousLeft = b.spurious

NextClose ==
    \/ \E s, c \in Senders : SenderClone(s, c)
    \/ \E s \in Senders : SenderDrop(s)
    \/ \E s \in Senders : SenderDropWake(s)
    \/ \E r \in Receivers : StartRecv(r)
    \/ \E r \in Receivers, num \in Nums : StartRecvExact(r, num)
    \/ \E r \in Receivers : StartRecvAll(r)
    \/ \E r \in Receivers : RecvPop(r)
    \/ \E r \in Receivers : RecvCheck(r)
    \/ \E r \in Receivers : RecvRegister(r)
    \/ \E r \in Receivers : RecvPark(r)
    \/ \E r \in Receivers : RecvExactPop(r)
    \/ \E r \in Receivers : RecvExactCheck(r)
    \/ \E r \in Receivers : RecvExactRegister(r)
    \/ \E r \in Receivers : RecvExactPark(r)
    \/ \E r \in Receivers : RecvAllTake(r)
    \/ \E r \in Receivers : RecvAllCheck(r)
    \/ \E r \in Receivers : RecvAllRegister(r)
    \/ \E r \in Receivers : RecvAllPark(r)
    \/ \E r \in Receivers : SpuriousWake(r)

SpecClose == InitClose /\ [][NextClose]_vars /\ Fairness

\* ---------------------------------------------------------------- properties
Range(q) == {q[i] : i \in 1..Len(q)}
Count(q, x) == Cardinality({i \in 1..Len(q) : q[i] = x})
Min(a, b) == IF a <= b THEN a ELSE b

RECURSIVE Concat(_, _)
Concat(f, S) ==
    IF S = {} THEN <<>>
    ELSE LET r == CHOOSE x \in S : TRUE IN f[r] \o Concat(f, S \ {r})

\* everything returned by receive calls so far, then what is still queued
Held == Concat(got, Receivers) \o data

\* r has just taken a step of its own
Stepped(r) == rpc'[r] # rpc[r]
\* this step is the return of a receive call of r
Returns(r) == rpc[r] # "idle" /\ rpc'[r] = "idle"
ReturnsNone(r) == Returns(r) /\ ret'[r] = "closed"

\* C1: no loss and no duplication: the items returned so far together with the
\* items still queued are, as a multiset, exactly the items pushed so far.
C1_NoLossNoDup ==
    \A x \in Range(pushed) \cup Range(Held) : Count(Held, x) = Count(pushed, x)

\* C1 witness: two items have been pushed, one has been returned by a
\* receive call and the other is still queued
C1_Witness ==
    /\ Len(pushed) = 2
    /\ \E r \in Receivers : Len(got[r]) = 1
    /\ Len(data) = 1

\* C2: a receive call returns the closed indicator only at a moment when
\* num_senders is 0 and the data queue is empty.
C2_ClosedNeverSpeculative ==
    [][\A r \in Receivers :
          ReturnsNone(r) => (num_senders = 0 /\ data = <<>>)]_vars

\* C3: in the wake-up test (one recv-ing thread, one thread that sends x once
\* and drops the Sender) the first recv eventually returns x and the second
\* returns closed.
C3_WakeupLiveness ==
    <>(/\ rpc["r1"] = "idle" /\ callsLeft = 0
       /\ got["r1"] = pushed /\ Len(pushed) = 1
       /\ ret["r1"] = "closed")

\* C4: producers never block: no receiver holds the data lock, which send and
\* send_many need, while it is parked.
C4_NoLockHeldWhileParked ==
    \A r \in Receivers : Parked(r) => dataLock # r

ClosedEmpty == num_senders = 0 /\ data = <<>>

\* C5: closed-and-empty is permanent, and every receive call that starts in
\* a closed-and-empty channel returns the closed indicator (it neither
\* returns data nor blocks).
C5_ClosedEmptyObserved ==
    /\ [][ClosedEmpty => ClosedEmpty']_vars
    /\ \A r \in Receivers :
          bornClosed[r] ~> (rpc[r] = "idle" /\ ret[r] = "closed")

\* C6: once num_senders is 0, every receive call in progress eventually
\* returns: no receiver stays parked on a closed channel.
C6_NoSleepThroughClose ==
    \A r \in Receivers : (num_senders = 0 /\ rpc[r] # "idle") ~> (rpc[r] = "idle")

\* C7: the close broadcast reaches all sleepers: every receiver that was
\* registered and parked in recv() on an empty open channel when the last
\* Sender was dropped is resumed by that drop, and its recv() returns closed.
C7_CloseReachesAllSleepers ==
    /\ [][\A s \in Senders : (spc[s] = "drop_wake" /\ spc'[s] = "dropped") =>
             \A r \in sleepers : Parked(r) => token'[r]]_vars
    /\ \A r \in Receivers :
          (r \in sleepers) ~> (rpc[r] = "idle" /\ ret[r] = "closed")

C9_RecvExactPartialBatch ==
    [][\A r \in Receivers :
        (Stepped(r) /\ rop[r] = "recv_exact") =>
            /\ (rpc[r] = "exact_pop" /\ rnum[r] >= 1 /\ data # <<>>) =>
                  LET k == Min(rnum[r], Len(data))
                  IN /\ Returns(r) /\ ret'[r] = "some"
                     /\ got'[r] = got[r] \o SubSeq(data, 1, k)
                     /\ data' = SubSeq(data, k + 1, Len(data))
                     /\ queue' = queue /\ token' = token
            /\ (rnum[r] >= 1 /\ Returns(r) /\ ret'[r] = "some") =>
                  (Len(got'[r]) - Len(got[r])) \in 1..rnum[r]
            /\ (rpc[r] = "exact_pop" /\ data = <<>>) =>
                  (rpc'[r] = "exact_chk" /\ data' = data /\ got'[r] = got[r])
            /\ (rpc[r] = "exact_chk" /\ num_senders = 0) =>
                  (ReturnsNone(r) /\ got'[r] = got[r])]_vars

\* C9 witness: a recv_exact(2) has returned a partial batch of one item, the
\* only item its caller ever got
C9_Witness ==
    \E r \in Receivers :
        /\ rop[r] = "recv_exact" /\ rnum[r] = 2
        /\ rpc[r] = "idle" /\ ret[r] = "some"
        /\ Len(got[r]) = 1

\* C10: recv_all batch law: a recv_all that takes the data lock on a queue of
\* m >= 1 items returns all m in queue order as one batch, leaves the queue
\* empty and does not register or park; items pushed after the return do not
\* reach the caller; on an empty queue with num_senders = 0 it returns closed.
C10_RecvAllBatch ==
    [][\A r \in Receivers :
        /\ (rpc[r] = "all_take" /\ Stepped(r) /\ data # <<>>) =>
              /\ Returns(r) /\ ret'[r] = "some"
              /\ got'[r] = got[r] \o data
              /\ data' = <<>>
              /\ queue' = queue /\ token' = token /\ dataLock' = "free"
        /\ (rpc[r] = "idle" /\ rpc'[r] = "idle") => got'[r] = got[r]
        /\ (rpc[r] = "all_chk" /\ Stepped(r) /\ num_senders = 0) =>
              (ReturnsNone(r) /\ got'[r] = got[r])]_vars

\* C10 witness: a recv_all has returned with its caller holding two items
\* and the queue empty
C10_Witness ==
    \E r \in Receivers :
        /\ rop[r] = "recv_all"
        /\ rpc[r] = "idle" /\ ret[r] = "some"
        /\ Len(got[r]) = 2 /\ data = <<>>

\* C11: recv_exact(0) is rejected before the wait protocol: a call with
\* n = 0 never registers a waiter record, never parks, never removes an item
\* from the data queue and never returns a sequence longer than 0.
C11_RecvExactZeroRejected ==
    /\ [][\A r \in Receivers :
            (rop[r] = "recv_exact" /\ rnum[r] = 0 /\ rpc[r] # "idle" /\ Stepped(r)) =>
                /\ queue' = queue
                /\ data' = data
                /\ got'[r] = got[r]]_vars
    /\ [](\A r \in Receivers :
            (rop[r] = "recv_exact" /\ rnum[r] = 0) => rpc[r] # "exact_park")

\* the Sender handles that exist: created and not yet dropped
LiveSenders == {s \in Senders : spc[s] \notin {"unborn", "dropped", "drop_wake"}}

\* C12: sender accounting and monotone close: num_senders is 1 at creation and
\* always equals the number of live Sender handles; only a clone (+1) or a
\* drop (-1) changes it; it never goes below 0, and once 0 it stays 0.
C12_SenderAccounting ==
    /\ [](num_senders = Cardinality(LiveSenders) /\ num_senders >= 0)
    /\ [][/\ (num_senders' = num_senders + 1) =>
                \E c \in Senders : spc[c] = "unborn" /\ spc'[c] = "idle"
          /\ (num_senders' = num_senders - 1) =>
                \E s \in Senders : spc[s] = "idle" /\ spc'[s] \in {"drop_wake", "dropped"}
          /\ num_senders' \in {num_senders - 1, num_senders, num_senders + 1}
          /\ (num_senders = 0) => (num_senders' = 0)]_vars

\* C12 witness: the channel was cloned to two handles and both have been
\* dropped: the count went 1, 2, 1, 0
C12_Witness ==
    /\ \A s \in Senders : spc[s] = "dropped"
    /\ num_senders = 0

\* C13: receivers take no part in the close protocol: no step of a receive
\* call changes num_senders; and a send / send_many made while no receiver is
\* inside a receive call finds the data lock free, appends its items, and
\* returns leaving the waiter registry unchanged.
C13_ReceiversOutsideClose ==
    /\ [][(\E r \in Receivers : Stepped(r)) => num_senders' = num_senders]_vars
    /\ []((\A r \in Receivers : rpc[r] = "idle") => dataLock = "free")
    /\ [][\A s \in Senders :
            /\ (quiet[s] /\ spc[s] \in {"send_push", "many_push"} /\ spc'[s] # spc[s]) =>
                  data' = data \o NewItems(s, slen[s])
            /\ (quiet[s] /\ spc[s] \in {"send_wake", "many_wake"} /\ spc'[s] # spc[s]) =>
                  (spc'[s] = "idle" /\ queue' = queue)]_vars

\* C14: no missed wakeup: in no reachable state is the channel open, the data
\* queue non-empty, no send / send_many / drop in progress, and some receiver
\* registered and parked with no wake pending for it.
C14_NoMissedWakeup ==
    ~ (/\ num_senders > 0
       /\ data # <<>>
       /\ \A s \in Senders : spc[s] \in {"unborn", "idle", "dropped"}
       /\ \E r \in Receivers : Parked(r) /\ Registered(r) /\ ~token[r])

\* the number of records at the front of registry q whose declared counts,
\* summed, first cover k items; all of q when some record is unbounded or
\* when the counts never cover k
RECURSIVE CoverLen(_, _)
CoverLen(q, k) ==
    IF k <= 0 \/ q = <<>> THEN 0
    ELSE 1 + CoverLen(Tail(q), k - Head(q).count)

WakeSize(q, k) ==
    IF k = 0 THEN 0
    ELSE IF \E i \in 1..Len(q) : q[i].count = UsizeMax THEN Len(q)
    ELSE CoverLen(q, k)

\* C15: send_many wake sizing: the wake step of a send_many that pushed k
\* items removes and resumes exactly the records at the front of the registry
\* whose counts first cover k (k being the batch length, whatever was queued
\* before), all records if one of them is unbounded, and none for k = 0.
C15_SendManyWakeSizing ==
    [][\A s \in Senders :
        (spc[s] = "many_wake" /\ spc'[s] # spc[s]) =>
            LET n == WakeSize(queue, slen[s])
            IN /\ queue' = SubSeq(queue, n + 1, Len(queue))
               /\ token' = Unpark({queue[i].thread : i \in 1..n})]_vars

\* C16: send wake step: a send first appends its item at the back of the data
\* queue; its wake step then removes exactly the front record of a non-empty
\* registry and resumes that thread and no other, leaving the other records
\* in place and in order; on an empty registry it wakes nobody.
C16_SendWakeStep ==
    [][\A s \in Senders :
        /\ (spc[s] = "send_push" /\ spc'[s] # spc[s]) =>
              /\ spc'[s] = "send_wake"
              /\ Len(data') = Len(data) + 1
              /\ SubSeq(data', 1, Len(data)) = data
              /\ data'[Len(data')].from = s
              /\ queue' = queue /\ token' = token
        /\ (spc[s] = "send_wake" /\ spc'[s] # spc[s]) =>
              /\ data' = data
              /\ IF queue = <<>>
                 THEN queue' = queue /\ token' = token
                 ELSE /\ queue' = Tail(queue)
                      /\ token' = [token EXCEPT ![Head(queue).thread] = TRUE]]_vars

\* C16 witness: both receivers registered and parked in recv, then one item
\* was sent: the older record is gone and its thread holds the wake, the
\* newer record is still in the registry and its thread has no wake
C16_Witness ==
    /\ Len(pushed) = 1 /\ Len(data) = 1
    /\ \A s \in Senders : spc[s] \in {"unborn", "idle"}
    /\ rpc = [r \in Receivers |-> "recv_park"]
    /\ Len(queue) = 1
    /\ ~token[queue[1].thread]
    /\ \E r \in Receivers : token[r]

\* C17: no dangling wake targets: every record in the waiter registry names a
\* thread that is inside a receive call, at its park, and has not been
\* resumed; no record of a resumed thread remains, the close broadcast
\* included.
C17_NoDanglingWakeTargets ==
    \A i \in 1..Len(queue) :
        Parked(queue[i].thread) /\ ~token[queue[i].thread]

\* C18: recv_all returns the closed indicator only if the channel is empty and
\* closed: at the step where a recv_all returns None the data queue is empty
\* and num_senders is 0, and the caller holds the data lock up to that step.
C18_RecvAllClosedOnlyIfEmpty ==
    [][\A r \in Receivers :
        (rop[r] = "recv_all" /\ ReturnsNone(r)) =>
            /\ dataLock = r
            /\ num_senders = 0 /\ data = <<>>
            /\ num_senders' = 0 /\ data' = <<>>]_vars

\* C18 witness: a recv_all has returned the closed indicator after an item
\* went through the channel
C18_Witness ==
    \E r \in Receivers :
        /\ rop[r] = "recv_all" /\ rpc[r] = "idle" /\ ret[r] = "closed"
        /\ Len(pushed) >= 1

\* the number of records of r in registry q
Records(q, r) == Cardinality({i \in 1..Len(q) : q[i].thread = r})

\* this step is a wake addressed to r: a send or send_many removes a record
\* of r, or the closing drop broadcasts over a registry holding one
WakeFor(r) ==
    \/ Len(queue') < Len(queue) /\ Records(queue', r) < Records(queue, r)
    \/ /\ Registered(r)
       /\ \E s \in Senders : spc[s] = "drop_wake" /\ spc'[s] = "dropped"

\* park of r returns and r goes back to the start of its loop
ParkReturns(r) == RecvPark(r) \/ RecvExactPark(r) \/ RecvAllPark(r)

\* C19: a wake between registration and park is not lost: a wake addressed to
\* a receiver that has registered and not yet returned from park leaves the
\* unpark token set; with the token set park can return at once, and when it
\* does the receiver consumes the token and goes back to re-check the queue.
C19_WakeBeforeParkKept ==
    /\ [][\A r \in Receivers : (Parked(r) /\ WakeFor(r)) => token'[r]]_vars
    /\ [](\A r \in Receivers : (Parked(r) /\ token[r]) => ENABLED ParkReturns(r))
    /\ [][\A r \in Receivers :
            (Parked(r) /\ token[r] /\ Stepped(r)) =>
                /\ ~token'[r]
                /\ rpc'[r] = (CASE rpc[r] = "recv_park" -> "recv_pop"
                                [] rpc[r] = "exact_park" -> "exact_pop"
                                [] rpc[r] = "all_park" -> "all_take")]_vars

\* C19 witness: a receiver has registered, its record has been taken by a
\* sender, and it stands at park with the wake pending
C19_Witness ==
    \E r \in Receivers :
        /\ Parked(r) /\ token[r] /\ ~Registered(r)
        /\ Len(pushed) >= 1

\* C20: send_many pushes its batch atomically: the whole batch is appended in
\* one step (one hold of the data lock), contiguous and in caller order at the
\* back of the data queue; before that step none of its items is in the
\* queue, so no receive call sees a proper prefix of the batch.
C20_SendManyAtomic ==
    [][\A s \in Senders :
        /\ (spc[s] = "many_push" /\ spc'[s] # spc[s]) =>
              /\ spc'[s] = "many_wake"
              /\ data' = data \o [i \in 1..slen[s] |-> Item(s, Len(pushed) + i)]
              /\ pushed' = pushed \o [i \in 1..slen[s] |-> Item(s, Len(pushed) + i)]
        /\ (spc[s] = "many_push" /\ spc'[s] = spc[s]) =>
              \A i \in (Len(pushed) + 1)..Len(pushed') : pushed'[i].from # s]_vars

\* C20 witness: a batch of two has been pushed by a send_many that has not
\* yet run its wake step, and a receive call has already returned both items
C20_Witness ==
    \E s \in Senders, r \in Receivers :
        /\ spc[s] = "many_wake" /\ slen[s] = 2
        /\ rpc[r] = "idle" /\ ret[r] = "some"
        /\ Len(pushed) = 2 /\ got[r] = pushed

====
